---- MODULE Spec2Model ----
(***************************************************************************)
(* Model of proof-of-concept-dag: the Dag graph model (dag.py), the node   *)
(* state machine (node.py), the in-memory result store (result.py) and the *)
(* AsyncConduit / ThreadPoolConduit scheduling engines (conduit.py).       *)
(***************************************************************************)
EXTENDS Integers, Sequences, FiniteSets, TLC

\* ------------------------------------------------------------------ bounds
NumNodes == 3      \* Node instances available to the client
MaxArcs == 3       \* longest arc sequence built with add_arc
MaxK == 2          \* largest concurrency_limit tried for AsyncConduit
MaxPool == 2       \* largest max_workers tried for ThreadPoolConduit
MaxQueryArcs == 3  \* longest arc sequence handed to Dag(arcs=...)
MaxPathLen == 2    \* longest path argument handed to Dag.level
MaxStoreArcs == 2  \* longest arc sequence of the runs over either result store
MaxCpu == 3        \* largest cpu_count() of the machines tried
MaxStarts == 2     \* start() calls made on one conduit

Nodes == 1..NumNodes
NoArc == <<0, 0>>

\* ------------------------------------------------------------ list helpers
InSeq(x, s) == \E i \in 1..Len(s) : s[i] = x

SeqToSet(s) == {s[i] : i \in 1..Len(s)}

\* keeps the first occurrence of every item, in list order: the list the
\* append-if-absent loop builds
remove_duplicates(lst) ==
    LET first == {i \in 1..Len(lst) : \A j \in 1..(i - 1) : lst[j] # lst[i]}
    IN [k \in 1..Cardinality(first) |->
           lst[CHOOSE i \in first : Cardinality({j \in first : j < i}) = k - 1]]

RECURSIVE list_remove(_, _)
list_remove(s, x) ==
    IF s = <<>> THEN <<>>
    ELSE IF Head(s) = x THEN Tail(s)
    ELSE <<Head(s)>> \o list_remove(Tail(s), x)

\* [arc[k] for arc in a], in list order
Column(a, k) == [i \in 1..Len(a) |-> a[i][k]]

\* ---------------------------------------------------------------- dag.py
dag_nodes(a) == remove_duplicates(Column(a, 1) \o Column(a, 2))

dag_sources(a) ==
    remove_duplicates(
        Column(SelectSeq(a, LAMBDA arc :
                                \A i \in 1..Len(a) :
                                    (a[i][1] # arc[1]) => ~InSeq(<<a[i][1], arc[1]>>, a)),
               1))

direct_dependencies(a, node) ==
    Column(SelectSeq(a, LAMBDA arc : arc[2] = node), 1)

appendleft_mut(sorted_nodes, node) == Append(sorted_nodes, node)

appendleft(sorted_nodes, node) == <<node>> \o sorted_nodes

RECURSIVE visit(_, _, _), visit_neighbors(_, _, _, _)
visit(a, node, st) ==
    IF st.raised THEN st
    ELSE IF InSeq(node, st.visited) THEN st
    ELSE IF InSeq(node, st.temp_visited) THEN [st EXCEPT !.raised = TRUE]
    ELSE LET entered == [st EXCEPT !.temp_visited = Append(@, node)]
             after == visit_neighbors(a, node, 1, entered)
         IN IF after.raised THEN after
            ELSE [after EXCEPT !.temp_visited = list_remove(@, node),
                               !.visited = Append(@, node),
                               !.sorted_nodes = appendleft(@, node)]

visit_neighbors(a, node, i, st) ==
    IF i > Len(a) \/ st.raised THEN st
    ELSE visit_neighbors(a, node, i + 1,
                         IF a[i][1] = node THEN visit(a, a[i][2], st) ELSE st)

sort_roots_mut(a) == dag_sources(a)

sort_roots(a) == dag_nodes(a)

RECURSIVE sort_loop(_, _, _, _)
sort_loop(a, roots, i, st) ==
    IF i > Len(roots) \/ st.raised THEN st
    ELSE sort_loop(a, roots, i + 1,
                   IF InSeq(roots[i], st.visited) THEN st ELSE visit(a, roots[i], st))

\* result: [raised |-> a cycle was detected, sorted_nodes |-> the order]
topological_sort(a) ==
    LET st == sort_loop(a, sort_roots(a), 1,
                        [sorted_nodes |-> <<>>, visited |-> <<>>,
                         temp_visited |-> <<>>, raised |-> FALSE])
    IN [raised |-> st.raised,
        sorted_nodes |-> IF st.raised THEN <<>> ELSE st.sorted_nodes]

add_arc_unchecked_mut(a, src_node, dst_node) ==
    LET temp == Append(a, <<src_node, dst_node>>)
    IN IF topological_sort(temp).raised
       THEN [arcs |-> a, result |-> "CycleError"]
       ELSE [arcs |-> temp, result |-> "ok"]

add_arc_island_mut(a, src_node, dst_node) ==
    LET ns == dag_nodes(a)
        temp == Append(a, <<src_node, dst_node>>)
    IN IF ns # <<>> /\ ~InSeq(src_node, ns) /\ InSeq(dst_node, ns)
       THEN [arcs |-> a, result |-> "ValueError"]
       ELSE IF topological_sort(temp).raised
            THEN [arcs |-> a, result |-> "CycleError"]
            ELSE [arcs |-> temp, result |-> "ok"]

add_arc_mut(a, src_node, dst_node) ==
    LET ns == dag_nodes(a)
        temp == Append(a, <<src_node, dst_node>>)
    IN IF ns # <<>> /\ ~InSeq(src_node, ns) /\ ~InSeq(dst_node, ns)
       THEN [arcs |-> a, result |-> "ValueError"]
       ELSE IF topological_sort(temp).raised
            THEN [arcs |-> temp, result |-> "CycleError"]
            ELSE [arcs |-> temp, result |-> "ok"]

\* result: the arcs after the call and how the call ended
add_arc(a, src_node, dst_node) ==
    LET ns == dag_nodes(a)
        temp == Append(a, <<src_node, dst_node>>)
    IN IF ns # <<>> /\ ~InSeq(src_node, ns) /\ ~InSeq(dst_node, ns)
       THEN [arcs |-> a, result |-> "ValueError"]
       ELSE IF topological_sort(temp).raised
            THEN [arcs |-> a, result |-> "CycleError"]
            ELSE [arcs |-> temp, result |-> "ok"]

dag_sinks_mut(a) ==
    Column(SelectSeq(a, LAMBDA arc :
                            \A i \in 1..Len(a) :
                                (a[i][2] # arc[2]) => ~InSeq(<<arc[2], a[i][2]>>, a)),
           2)

dag_sinks(a) ==
    remove_duplicates(
        Column(SelectSeq(a, LAMBDA arc :
                                \A i \in 1..Len(a) :
                                    (a[i][2] # arc[2]) => ~InSeq(<<arc[2], a[i][2]>>, a)),
               2))

is_in_dag_mut(a, node) == InSeq(node, Column(a, 1))

\* _is_in_dag raises ValueError exactly when this is false
is_in_dag(a, node) == InSeq(node, dag_nodes(a))

\* result: [raised |-> the exception or "none", result |-> the list]
neighbors(a, node) ==
    IF ~is_in_dag(a, node) THEN [raised |-> "ValueError", result |-> <<>>]
    ELSE [raised |-> "none",
          result |-> Column(SelectSeq(a, LAMBDA arc : arc[1] = node), 2)]

RECURSIVE dfs(_, _, _, _), dfs_neighbors(_, _, _, _, _)
\* a node met again on its own path is a recursion that never returns: the
\* interpreter ends it with RecursionError
dfs(a, node, path, st) ==
    LET new_path == Append(path, node)
        nbrs == neighbors(a, node).result
    IN IF st.raised # "none" THEN st
       ELSE IF InSeq(node, path) THEN [st EXCEPT !.raised = "RecursionError"]
       ELSE IF Len(nbrs) = 0 THEN [st EXCEPT !.out_list = Append(@, new_path)]
       ELSE dfs_neighbors(a, nbrs, 1, new_path, st)

dfs_neighbors(a, nbrs, i, new_path, st) ==
    IF i > Len(nbrs) \/ st.raised # "none" THEN st
    ELSE dfs_neighbors(a, nbrs, i + 1, new_path, dfs(a, nbrs[i], new_path, st))

RECURSIVE enumerate_from(_, _, _, _)
enumerate_from(a, srcs, i, st) ==
    IF i > Len(srcs) \/ st.raised # "none" THEN st
    ELSE enumerate_from(a, srcs, i + 1, dfs(a, srcs[i], <<>>, st))

\* result: [raised |-> the exception or "none", out_list |-> the paths]
enumerate_paths(a) ==
    enumerate_from(a, dag_sources(a), 1, [raised |-> "none", out_list |-> <<>>])

\* path.index(node): 0-based position of the first occurrence
index_of(path, node) ==
    (CHOOSE i \in 1..Len(path) :
        path[i] = node /\ \A j \in 1..(i - 1) : path[j] # node) - 1

RECURSIVE collect_dependencies(_, _, _, _)
collect_dependencies(paths, node, i, out_set) ==
    IF i > Len(paths) THEN out_set
    ELSE collect_dependencies(paths, node, i + 1,
             IF InSeq(node, paths[i])
             THEN out_set \o SubSeq(paths[i], 1, index_of(paths[i], node))
             ELSE out_set)

all_dependencies_mut(a, node) ==
    [raised |-> "none", result |-> direct_dependencies(a, node)]

all_dependencies(a, node) ==
    LET ps == enumerate_paths(a)
    IN IF ps.raised # "none" THEN [raised |-> ps.raised, result |-> <<>>]
       ELSE [raised |-> "none",
             result |-> collect_dependencies(ps.out_list, node, 1, <<>>)]

\* result: [raised |-> the exception or "none", value |-> the level]
level(a, node, path) ==
    IF ~is_in_dag(a, node) THEN [raised |-> "ValueError", value |-> 0]
    ELSE IF ~InSeq(node, path) THEN [raised |-> "none", value |-> -1]
    ELSE [raised |-> "none", value |-> index_of(path, node)]

\* ------------------------------------------- graph facts used by the claims
Succ(a, S) == {a[i][2] : i \in {j \in 1..Len(a) : a[j][1] \in S}}

RECURSIVE Descendants(_, _, _)
Descendants(a, S, k) ==
    IF k = 0 THEN S ELSE Descendants(a, S \cup Succ(a, S), k - 1)

\* y is reachable from x along one or more arcs
Reaches(a, x, y) == y \in Descendants(a, Succ(a, {x}), Len(a))

HasCycle(a) == \E i \in 1..Len(a) : Reaches(a, a[i][1], a[i][1])

ClosesCycle(a, s, d) == s = d \/ Reaches(a, d, s)

\* -------------------------------------------------------------- variables
VARIABLES
    arcs,               \* Dag.arcs: sequence of <<source, destination>>
    addResult,          \* how the last add_arc call ended
    lastArc,            \* arguments of the last add_arc call
    sortResult,         \* outcome of a topological_sort(dag) call
    engine,             \* which conduit's start() is running
    pc,                 \* position of the thread that called start()
    raised,             \* exception start() ended with
    state,              \* Node.state of every node
    storage,            \* MemoryResultIO._result_storage: writes made per label
    thread,             \* executor work item running Node.start for a node
    step,               \* position of that work item inside Node.start
    depsArg,            \* dependencies argument Node.start was called with
    excKind,            \* exception a Node.start call ended with
    readLog,            \* <<reader, dependency, version found>> of every read_result
    concurrency_limit,  \* AsyncConduit.concurrency_limit
    semValue,           \* free slots of the asyncio.Semaphore
    task,               \* _schedule_node_with_semaphore coroutine of a node
    running_nodes,      \* AsyncConduit._running_nodes
    max_workers,        \* ThreadPoolExecutor size
    submitted_nodes,    \* ThreadPoolConduit._submitted_nodes
    workQueue,          \* ThreadPoolExecutor work queue
    launchCount,        \* Node.start submissions to an executor, per node
    setRunningCount,    \* set_state(RUNNING) calls per node
    callbackCount,      \* callback invocations per node
    setCompleteCount,   \* set_state(COMPLETE) calls per node
    callbackOutcome,    \* how the last callback invocation of a node ended
    query,              \* a Dag query call and how it ended
    result_io,          \* class of the ResultIO bound to the conduit
    temp_dir,           \* whether the directory result_io.temp_location exists
    hookLog,            \* create / delete calls start() made on result_io
    cpus,               \* multiprocessing.cpu_count()
    max_processors,     \* ParallelConduits._max_processors
    processors,         \* ParallelConduits._processors: status of each Process
    parPc,              \* position of the caller of ParallelConduits
    parIdx,             \* index of the for loops of ParallelConduits.start
    parResult           \* last ParallelConduits call and how it ended

dagVars == <<arcs, addResult, lastArc, sortResult>>
nodeVars == <<state, storage, thread, step, depsArg, excKind, readLog>>
asyncVars == <<concurrency_limit, semValue, task, running_nodes>>
poolVars == <<max_workers, submitted_nodes, workQueue>>
countVars == <<launchCount, setRunningCount, callbackCount, setCompleteCount,
              callbackOutcome>>
storeVars == <<result_io, temp_dir, hookLog>>
parVars == <<cpus, max_processors, processors, parPc, parIdx, parResult>>
restVars == <<query, parVars>>
vars == <<dagVars, engine, pc, raised, nodeVars, asyncVars, poolVars, countVars,
          storeVars, restVars>>

NoQuery == [op |-> "none", node |-> 0, path |-> <<>>, raised |-> "none",
            result |-> <<>>, value |-> 0]
NoCall == [op |-> "none", result |-> "none"]

NoSort == [called |-> FALSE, raised |-> FALSE, sorted_nodes |-> <<>>]

\* ------------------------------------------------------- conduit.py helpers
get_nodes_mut(a, st, node_state) == dag_nodes(a)

get_nodes(a, st, node_state) ==
    SelectSeq(dag_nodes(a), LAMBDA node : st[node] = node_state)

are_all_nodes_complete_mut(a, st) ==
    \E i \in 1..Len(dag_nodes(a)) : st[dag_nodes(a)[i]] = "Complete"

are_all_nodes_complete(a, st) ==
    \A i \in 1..Len(dag_nodes(a)) : st[dag_nodes(a)[i]] = "Complete"

is_node_ready_mut(a, st, node) ==
    \E i \in 1..Len(direct_dependencies(a, node)) :
        st[direct_dependencies(a, node)[i]] = "Complete"

is_node_ready(a, st, node) ==
    \A i \in 1..Len(direct_dependencies(a, node)) :
        st[direct_dependencies(a, node)[i]] = "Complete"

\* ThreadPoolConduit._submitted_nodes: a node is submitted only while absent
not_submitted_mut(node, submitted) == TRUE

not_submitted(node, submitted) == node \notin submitted

\* the nodes one pass of the scan of _submit_node_tasks looks at
scan_nodes_mut(a, st) == get_nodes(a, st, "Running")

scan_nodes(a, st) == get_nodes(a, st, "Idle")

\* asyncio.Semaphore: acquire goes through only while a slot is free
semaphore_free_mut(value) == TRUE

semaphore_free(value) == value > 0

\* -------------------------------------------------------------- result.py
StoreKinds == {"MemoryResultIO", "LocalResultIO"}

\* attributes an instance of the class has (LocalFsCrudMeta injects the
\* temp-location methods into LocalResultIO)
store_attrs(kind) ==
    IF kind = "LocalResultIO"
    THEN {"temp_location", "write_result", "read_result", "file_extension",
          "use_transfer_results", "read_results", "create_temp_location",
          "delete_temp_location", "file_path", "transfer_results"}
    ELSE {"temp_location", "write_result", "read_result", "_result_storage"}

hasattr(kind, name) == name \in store_attrs(kind)

\* the store offers operations that create and delete its scratch area
ExposesScratchHooks(kind) ==
    {"create_temp_location", "delete_temp_location"} \subseteq store_attrs(kind)

\* LocalResultIO keeps one file per label inside temp_location
store_usable(kind, dir) == kind = "LocalResultIO" => dir

\* exception of a read_result that finds nothing under the label
missing_error(kind) == IF kind = "LocalResultIO" THEN "FileNotFoundError" ELSE "KeyError"

\* attribute names start() looks up on result_io
create_hook_name == "create_temp_directory"

delete_hook_name == "delete_temp_directory"

\* the hook calls at the top of start(): [dir, log] afterwards
start_prologue(kind, dir, log) ==
    LET deleted == hasattr(kind, delete_hook_name)
        dir1 == IF deleted THEN FALSE ELSE dir
        log1 == IF deleted THEN Append(log, "delete") ELSE log
        created == hasattr(kind, create_hook_name)
    IN [dir |-> IF created THEN TRUE ELSE dir1,
        log |-> IF created THEN Append(log1, "create") ELSE log1]

\* the hook call in the finally block of start(): [dir, log] afterwards
start_epilogue(kind, dir, log) ==
    IF hasattr(kind, delete_hook_name)
    THEN [dir |-> FALSE, log |-> Append(log, "delete")]
    ELSE [dir |-> dir, log |-> log]

\* ---------------------------------------------------------------- node.py
\* program order of Node.start under the update_node_state decorator
start_steps_mut == <<"set_running", "read", "callback", "set_complete", "write">>

start_steps == <<"set_running", "read", "callback", "write", "set_complete">>

AtStep(n, name) == thread[n] = "running" /\ start_steps[step[n]] = name

\* the work item moves on to the next statement, or returns
Advance(n) ==
    IF step[n] = Len(start_steps)
    THEN thread' = [thread EXCEPT ![n] = "ok"] /\ step' = [step EXCEPT ![n] = 0]
    ELSE step' = [step EXCEPT ![n] = @ + 1] /\ UNCHANGED thread

\* the work item ends with an exception
Raise(n, kind) ==
    /\ thread' = [thread EXCEPT ![n] = "exc"]
    /\ step' = [step EXCEPT ![n] = 0]
    /\ excKind' = [excKind EXCEPT ![n] = kind]

ActiveWorkers == Cardinality({n \in Nodes : thread[n] = "running"})

\* ------------------------------------------------------------------ Init
IdleRun ==
    /\ engine = "none" /\ raised = "none"
    /\ state = [n \in Nodes |-> "Idle"]
    /\ storage = [n \in Nodes |-> 0]
    /\ thread = [n \in Nodes |-> "none"]
    /\ step = [n \in Nodes |-> 0]
    /\ depsArg = [n \in Nodes |-> <<>>]
    /\ excKind = [n \in Nodes |-> "none"]
    /\ readLog = {}
    /\ concurrency_limit = 0 /\ semValue = 0
    /\ task = [n \in Nodes |-> "none"]
    /\ running_nodes = {}
    /\ max_workers = 0 /\ submitted_nodes = {} /\ workQueue = <<>>
    /\ launchCount = [n \in Nodes |-> 0]
    /\ setRunningCount = [n \in Nodes |-> 0]
    /\ callbackCount = [n \in Nodes |-> 0]
    /\ setCompleteCount = [n \in Nodes |-> 0]
    /\ callbackOutcome = [n \in Nodes |-> "none"]
    /\ hookLog = <<>>

\* no Dag query made, no ParallelConduits constructed
IdleRest ==
    /\ query = NoQuery
    /\ cpus = 0 /\ max_processors = 0 /\ processors = <<>>
    /\ parPc = "none" /\ parIdx = 0 /\ parResult = NoCall

\* Dag() with no arcs, nodes freshly constructed, no conduit started
Init ==
    /\ arcs = <<>> /\ addResult = "none" /\ lastArc = NoArc /\ sortResult = NoSort
    /\ pc = "build"
    /\ result_io = "MemoryResultIO" /\ temp_dir = FALSE
    /\ IdleRun /\ IdleRest

\* ------------------------------------------------------------ Dag.add_arc
AddArc(src_node, dst_node) ==
    /\ pc = "build"
    /\ Len(arcs) < MaxArcs
    /\ LET r == add_arc(arcs, src_node, dst_node)
       IN /\ arcs' = r.arcs
          /\ addResult' = r.result
    /\ lastArc' = <<src_node, dst_node>>
    /\ UNCHANGED <<storeVars, restVars, sortResult, engine, pc, raised, nodeVars, asyncVars, poolVars, countVars>>

\* ------------------------------------------- Node.start on a worker thread
\* a free worker thread takes the work item
WorkerPick(n) ==
    /\ thread[n] = "queued"
    /\ IF engine = "threadpool"
       THEN /\ workQueue # <<>> /\ Head(workQueue) = n
            /\ ActiveWorkers < max_workers
            /\ workQueue' = Tail(workQueue)
       ELSE UNCHANGED workQueue
    /\ thread' = [thread EXCEPT ![n] = "running"]
    /\ step' = [step EXCEPT ![n] = 1]
    /\ UNCHANGED <<storeVars, restVars, dagVars, engine, pc, raised, state, storage, depsArg, excKind, readLog,
                   asyncVars, max_workers, submitted_nodes, countVars>>

NodeSetRunning(n) ==
    /\ AtStep(n, "set_running")
    /\ state' = [state EXCEPT ![n] = "Running"]
    /\ setRunningCount' = [setRunningCount EXCEPT ![n] = @ + 1]
    /\ Advance(n)
    /\ UNCHANGED <<storeVars, restVars, dagVars, engine, pc, raised, storage, depsArg, excKind, readLog,
                   asyncVars, poolVars, launchCount, callbackCount, setCompleteCount, callbackOutcome>>

\* read_result for every dependency passed in (use_dependency_results at its
\* default, True); a missing key or file raises
NodeReadDeps(n) ==
    /\ AtStep(n, "read")
    /\ readLog' = readLog \cup
                    {<<n, depsArg[n][i], storage[depsArg[n][i]]>> : i \in 1..Len(depsArg[n])}
    /\ IF \E i \in 1..Len(depsArg[n]) : storage[depsArg[n][i]] = 0
       THEN Raise(n, missing_error(result_io))
       ELSE Advance(n) /\ UNCHANGED excKind
    /\ UNCHANGED <<storeVars, restVars, dagVars, engine, pc, raised, state, storage, depsArg,
                   asyncVars, poolVars, countVars>>

callback_end_mut(outcome) ==
    IF outcome = "raise" THEN "CallbackError" ELSE "none"

\* the exception the callback statement and the isinstance check after it end
\* with, "none" when Node.start goes on to write_result
callback_end(outcome) ==
    CASE outcome = "ok" -> "none"
      [] outcome = "raise" -> "CallbackError"
      [] outcome = "mismatch" -> "TypeError"

\* the callback returns a result of the declared kind, raises, or returns
\* a value of another kind (the isinstance check then raises TypeError)
NodeCallback(n, outcome) ==
    /\ AtStep(n, "callback")
    /\ callbackCount' = [callbackCount EXCEPT ![n] = @ + 1]
    /\ callbackOutcome' = [callbackOutcome EXCEPT ![n] = outcome]
    /\ LET e == callback_end(outcome)
       IN IF e = "none" THEN Advance(n) /\ UNCHANGED excKind ELSE Raise(n, e)
    /\ UNCHANGED <<storeVars, restVars, dagVars, engine, pc, raised, state, storage, depsArg, readLog,
                   asyncVars, poolVars, launchCount, setRunningCount, setCompleteCount>>

NodeWrite(n) ==
    /\ AtStep(n, "write")
    /\ IF store_usable(result_io, temp_dir)
       THEN /\ storage' = [storage EXCEPT ![n] = @ + 1]
            /\ Advance(n) /\ UNCHANGED excKind
       ELSE Raise(n, "FileNotFoundError") /\ UNCHANGED storage
    /\ UNCHANGED <<storeVars, restVars, dagVars, engine, pc, raised, state, depsArg, readLog,
                   asyncVars, poolVars, countVars>>

NodeSetComplete(n) ==
    /\ AtStep(n, "set_complete")
    /\ state' = [state EXCEPT ![n] = "Complete"]
    /\ setCompleteCount' = [setCompleteCount EXCEPT ![n] = @ + 1]
    /\ Advance(n)
    /\ UNCHANGED <<storeVars, restVars, dagVars, engine, pc, raised, storage, depsArg, excKind, readLog,
                   asyncVars, poolVars, launchCount, setRunningCount, callbackCount, callbackOutcome>>

\* ------------------------------------------------------------ AsyncConduit
\* start() up to the first await of _main_loop: the semaphore is created and
\* one _schedule_node_with_semaphore task is created per source node
AsyncStart(k) ==
    /\ pc = "build"
    /\ engine' = "async"
    /\ concurrency_limit' = k
    /\ semValue' = k
    /\ task' = [n \in Nodes |->
                   IF InSeq(n, dag_sources(arcs)) THEN "waiting" ELSE "none"]
    /\ depsArg' = [n \in Nodes |-> <<>>]
    /\ pc' = "gather"
    /\ addResult' = "none" /\ lastArc' = NoArc
    /\ LET r == start_prologue(result_io, temp_dir, hookLog)
       IN temp_dir' = r.dir /\ hookLog' = r.log
    /\ UNCHANGED result_io
    /\ UNCHANGED <<restVars, arcs, sortResult, raised, state, storage, thread, step, excKind, readLog,
                   running_nodes, poolVars, countVars>>

\* `async with semaphore` is entered and _run_node_async runs up to its await:
\* a node already in _running_nodes is skipped, otherwise Node.start is
\* handed to the default executor
TaskAcquire(n) ==
    /\ task[n] = "waiting"
    /\ semaphore_free(semValue)
    /\ IF n \in running_nodes
       THEN /\ task' = [task EXCEPT ![n] = "done"]
            /\ UNCHANGED <<semValue, running_nodes, thread, launchCount>>
       ELSE /\ semValue' = semValue - 1
            /\ running_nodes' = running_nodes \cup {n}
            /\ task' = [task EXCEPT ![n] = "awaiting"]
            /\ thread' = [thread EXCEPT ![n] = "queued"]
            /\ launchCount' = [launchCount EXCEPT ![n] = @ + 1]
    /\ UNCHANGED <<storeVars, restVars, dagVars, engine, pc, raised, state, storage, step, depsArg, excKind,
                   readLog, concurrency_limit, poolVars, setRunningCount, callbackCount,
                   setCompleteCount, callbackOutcome>>

\* run_in_executor has finished: the finally block and the exit of
\* `async with` run, and the task ends with the result of Node.start
TaskResume(n) ==
    /\ task[n] = "awaiting"
    /\ thread[n] \in {"ok", "exc"}
    /\ running_nodes' = running_nodes \ {n}
    /\ semValue' = semValue + 1
    /\ task' = [task EXCEPT ![n] = IF thread[n] = "ok" THEN "done" ELSE "failed"]
    /\ UNCHANGED <<storeVars, restVars, dagVars, engine, pc, raised, nodeVars, concurrency_limit, poolVars,
                   countVars>>

AsyncGatherDone_mut ==
    /\ engine = "async" /\ pc = "gather"
    /\ \A n \in Nodes : task[n] \in {"none", "done", "failed"}
    /\ task' = [n \in Nodes |-> "none"]
    /\ pc' = "loop"
    /\ UNCHANGED <<storeVars, restVars, dagVars, engine, raised, nodeVars, concurrency_limit, semValue,
                   running_nodes, poolVars, countVars>>

\* asyncio.gather returns once every task of the batch is done; the loop
\* then sleeps and evaluates its condition
AsyncGatherDone ==
    /\ engine = "async" /\ pc = "gather"
    /\ \A n \in Nodes : task[n] \in {"none", "done"}
    /\ task' = [n \in Nodes |-> "none"]
    /\ pc' = "loop"
    /\ UNCHANGED <<storeVars, restVars, dagVars, engine, raised, nodeVars, concurrency_limit, semValue,
                   running_nodes, poolVars, countVars>>

\* asyncio.gather re-raises the first task exception; _main_loop ends and
\* asyncio.run cancels every task that is still pending
AsyncGatherFail ==
    /\ engine = "async" /\ pc = "gather"
    /\ \E n \in Nodes : task[n] = "failed" /\ raised' = excKind[n]
    /\ LET holders == {n \in Nodes : task[n] = "awaiting"}
       IN /\ task' = [n \in Nodes |->
                         IF task[n] \in {"waiting", "awaiting"} THEN "cancelled" ELSE task[n]]
          /\ semValue' = semValue + Cardinality(holders)
          /\ running_nodes' = running_nodes \ holders
          /\ thread' = [n \in Nodes |->
                           IF n \in holders /\ thread[n] = "queued"
                           THEN "cancelled" ELSE thread[n]]
    /\ pc' = "shutdown"
    /\ UNCHANGED <<storeVars, restVars, dagVars, engine, state, storage, step, depsArg, excKind, readLog,
                   concurrency_limit, poolVars, countVars>>

\* asyncio.run waits for the executor threads, then start() raises
AsyncShutdown ==
    /\ engine = "async" /\ pc = "shutdown"
    /\ \A n \in Nodes : thread[n] # "running"
    /\ pc' = "raised"
    /\ LET r == start_epilogue(result_io, temp_dir, hookLog)
       IN temp_dir' = r.dir /\ hookLog' = r.log
    /\ UNCHANGED result_io
    /\ UNCHANGED <<restVars, dagVars, engine, raised, nodeVars, asyncVars, poolVars, countVars>>

\* one pass of the while loop: _execute_ready_nodes creates a task for every
\* Idle node that is ready and awaits them
AsyncLoopIter ==
    /\ engine = "async" /\ pc = "loop"
    /\ ~are_all_nodes_complete(arcs, state)
    /\ LET batch == {n \in SeqToSet(get_nodes(arcs, state, "Idle")) :
                        is_node_ready(arcs, state, n)}
       IN /\ task' = [n \in Nodes |-> IF n \in batch THEN "waiting" ELSE "none"]
          /\ depsArg' = [n \in Nodes |->
                            IF n \in batch THEN direct_dependencies(arcs, n) ELSE depsArg[n]]
    /\ pc' = "gather"
    /\ UNCHANGED <<storeVars, restVars, dagVars, engine, raised, state, storage, thread, step, excKind, readLog,
                   concurrency_limit, semValue, running_nodes, poolVars, countVars>>

AsyncLoopExit ==
    /\ engine = "async" /\ pc = "loop"
    /\ are_all_nodes_complete(arcs, state)
    /\ pc' = "returned"
    /\ LET r == start_epilogue(result_io, temp_dir, hookLog)
       IN temp_dir' = r.dir /\ hookLog' = r.log
    /\ UNCHANGED result_io
    /\ UNCHANGED <<restVars, dagVars, engine, raised, nodeVars, asyncVars, poolVars, countVars>>

\* -------------------------------------------------------- ThreadPoolConduit
\* start() up to the while loop of _submit_node_tasks: the executor is
\* created and every source node not yet submitted is submitted
PoolStart(p) ==
    /\ pc = "build"
    /\ engine' = "threadpool"
    /\ max_workers' = p
    /\ LET new == SelectSeq(dag_sources(arcs),
                         LAMBDA n : not_submitted(n, submitted_nodes))
       IN /\ submitted_nodes' = submitted_nodes \cup SeqToSet(new)
          /\ workQueue' = workQueue \o new
          /\ thread' = [n \in Nodes |-> IF InSeq(n, new) THEN "queued" ELSE thread[n]]
          /\ depsArg' = [n \in Nodes |-> IF InSeq(n, new) THEN <<>> ELSE depsArg[n]]
          /\ launchCount' = [n \in Nodes |->
                                IF InSeq(n, new) THEN launchCount[n] + 1 ELSE launchCount[n]]
    /\ pc' = "submit_loop"
    /\ addResult' = "none" /\ lastArc' = NoArc
    /\ LET r == start_prologue(result_io, temp_dir, hookLog)
       IN temp_dir' = r.dir /\ hookLog' = r.log
    /\ UNCHANGED result_io
    /\ UNCHANGED <<restVars, arcs, sortResult, raised, state, storage, step, excKind, readLog,
                   asyncVars, setRunningCount, callbackCount, setCompleteCount, callbackOutcome>>

\* the scan finds an Idle, ready, not yet submitted node and submits it
PoolSubmit(n) ==
    /\ engine = "threadpool" /\ pc = "submit_loop"
    /\ ~are_all_nodes_complete(arcs, state)
    /\ InSeq(n, scan_nodes(arcs, state))
    /\ not_submitted(n, submitted_nodes)
    /\ is_node_ready(arcs, state, n)
    /\ submitted_nodes' = submitted_nodes \cup {n}
    /\ workQueue' = Append(workQueue, n)
    /\ thread' = [thread EXCEPT ![n] = "queued"]
    /\ depsArg' = [depsArg EXCEPT ![n] = direct_dependencies(arcs, n)]
    /\ launchCount' = [launchCount EXCEPT ![n] = @ + 1]
    /\ UNCHANGED <<storeVars, restVars, dagVars, engine, pc, raised, state, storage, step, excKind, readLog,
                   asyncVars, max_workers, setRunningCount, callbackCount, setCompleteCount, callbackOutcome>>

\* the while condition of _submit_node_tasks fails: the futures are returned
PoolLoopExit ==
    /\ engine = "threadpool" /\ pc = "submit_loop"
    /\ are_all_nodes_complete(arcs, state)
    /\ pc' = "as_completed"
    /\ UNCHANGED <<storeVars, restVars, dagVars, engine, raised, nodeVars, asyncVars, poolVars, countVars>>

\* _main_loop takes the result of every future: a ConduitError is wrapped in
\* a new ConduitError, any other exception passes through unchanged
PoolAsCompleted ==
    /\ engine = "threadpool" /\ pc = "as_completed"
    /\ \A n \in Nodes : thread[n] \notin {"queued", "running"}
    /\ IF \E n \in Nodes : thread[n] = "exc"
       THEN /\ pc' = "raised"
            /\ \E n \in Nodes :
                  /\ thread[n] = "exc"
                  /\ raised' = excKind[n]
       ELSE pc' = "returned" /\ UNCHANGED raised
    /\ LET r == start_epilogue(result_io, temp_dir, hookLog)
       IN temp_dir' = r.dir /\ hookLog' = r.log
    /\ UNCHANGED result_io
    /\ UNCHANGED <<restVars, dagVars, engine, nodeVars, asyncVars, poolVars, countVars>>

\* ------------------------------------------------------------------- Spec
Outcomes == {"ok", "raise", "mismatch"}

Build == \E s, d \in Nodes : AddArc(s, d)

NodeStart ==
    \E n \in Nodes :
        \/ WorkerPick(n)
        \/ NodeSetRunning(n)
        \/ NodeReadDeps(n)
        \/ \E o \in Outcomes : NodeCallback(n, o)
        \/ NodeWrite(n)
        \/ NodeSetComplete(n)

AsyncRun ==
    \/ \E k \in 1..MaxK : AsyncStart(k)
    \/ \E n \in Nodes : TaskAcquire(n)
    \/ \E n \in Nodes : TaskResume(n)
    \/ AsyncGatherDone
    \/ AsyncGatherFail
    \/ AsyncShutdown
    \/ AsyncLoopIter
    \/ AsyncLoopExit

PoolRun ==
    \/ \E p \in 1..MaxPool : PoolStart(p)
    \/ \E n \in Nodes : PoolSubmit(n)
    \/ PoolLoopExit
    \/ PoolAsCompleted

Run == NodeStart \/ AsyncRun \/ PoolRun

Next == Build \/ Run

Spec == Init /\ [][Next]_vars

\* the event loop, the executor threads and the thread that called start()
\* all keep being scheduled; the client is free to stop building
FairSpec == Spec /\ WF_vars(Run)

\* --------------------------------------------- Dag queries on any arc list
\* Dag(arcs=...) accepts any list of arcs without validating it
ArcLists == UNION {[1..k -> Nodes \X Nodes] : k \in 0..MaxQueryArcs}

\* the arc list of the documented example
SampleArcs == <<<<1, 3>>, <<2, 3>>, <<3, 4>>, <<3, 5>>, <<5, 6>>>>

\* the nodes asked about: the client's nodes and those of the example
QueryNodes == Nodes \cup SeqToSet(dag_nodes(SampleArcs))

\* the path arguments tried for level()
Paths == UNION {[1..k -> Nodes] : k \in 0..MaxPathLen}

InitQuery ==
    /\ arcs \in ArcLists \cup {SampleArcs}
    /\ addResult = "none" /\ lastArc = NoArc /\ sortResult = NoSort
    /\ pc = "query"
    /\ result_io = "MemoryResultIO" /\ temp_dir = FALSE
    /\ IdleRun /\ IdleRest

\* one call is made on the Dag and its outcome recorded
NoCallYet == pc = "query" /\ ~sortResult.called /\ query = NoQuery

QueryFrame ==
    UNCHANGED <<storeVars, parVars, dagVars, engine, pc, raised, nodeVars,
                asyncVars, poolVars, countVars>>

TopologicalSortCall ==
    /\ NoCallYet
    /\ LET r == topological_sort(arcs)
       IN sortResult' = [called |-> TRUE, raised |-> r.raised,
                         sorted_nodes |-> r.sorted_nodes]
    /\ UNCHANGED <<storeVars, restVars, arcs, addResult, lastArc, engine, pc, raised, nodeVars, asyncVars,
                   poolVars, countVars>>

SourcesCall ==
    /\ NoCallYet
    /\ query' = [NoQuery EXCEPT !.op = "sources", !.result = dag_sources(arcs)]
    /\ QueryFrame

SinksCall ==
    /\ NoCallYet
    /\ query' = [NoQuery EXCEPT !.op = "sinks", !.result = dag_sinks(arcs)]
    /\ QueryFrame

DirectDependenciesCall(node) ==
    /\ NoCallYet
    /\ query' = [NoQuery EXCEPT !.op = "direct_dependencies", !.node = node,
                                !.result = direct_dependencies(arcs, node)]
    /\ QueryFrame

AllDependenciesCall(node) ==
    /\ NoCallYet
    /\ LET r == all_dependencies(arcs, node)
       IN query' = [NoQuery EXCEPT !.op = "all_dependencies", !.node = node,
                                   !.raised = r.raised, !.result = r.result]
    /\ QueryFrame

NeighborsCall(node) ==
    /\ NoCallYet
    /\ LET r == neighbors(arcs, node)
       IN query' = [NoQuery EXCEPT !.op = "neighbors", !.node = node,
                                   !.raised = r.raised, !.result = r.result]
    /\ QueryFrame

LevelCall(node, path) ==
    /\ NoCallYet
    /\ LET r == level(arcs, node, path)
       IN query' = [NoQuery EXCEPT !.op = "level", !.node = node, !.path = path,
                                   !.raised = r.raised, !.value = r.value]
    /\ QueryFrame

NodesCall ==
    /\ NoCallYet
    /\ query' = [NoQuery EXCEPT !.op = "nodes", !.result = dag_nodes(arcs)]
    /\ QueryFrame

NextQuery ==
    \/ TopologicalSortCall
    \/ NodesCall
    \/ SourcesCall
    \/ SinksCall
    \/ \E node \in Nodes : DirectDependenciesCall(node)
    \/ \E node \in QueryNodes : AllDependenciesCall(node)
    \/ \E node \in Nodes : NeighborsCall(node)
    \/ \E node \in Nodes, path \in Paths : LevelCall(node, path)

SpecQuery == InitQuery /\ [][NextQuery]_vars

\* ------------------------------------- runs over either kind of result store
RECURSIVE BuiltDags(_)
\* the arc lists add_arc can build with at most k accepted calls
BuiltDags(k) ==
    IF k = 0 THEN {<<>>}
    ELSE LET prev == BuiltDags(k - 1)
         IN prev \cup {add_arc(a, s, d).arcs : a \in prev, s \in Nodes, d \in Nodes}

\* a built graph and a ResultIO instance; the directory of a LocalResultIO
\* may or may not exist when start() is called
InitStore ==
    /\ arcs \in BuiltDags(MaxStoreArcs)
    /\ addResult = "none" /\ lastArc = NoArc /\ sortResult = NoSort
    /\ pc = "build"
    /\ result_io \in StoreKinds
    /\ temp_dir \in (IF result_io = "LocalResultIO" THEN BOOLEAN ELSE {FALSE})
    /\ IdleRun /\ IdleRest

SpecStore == InitStore /\ [][Run]_vars

\* ------------------------------------------ start() called again
\* start() is called on an AsyncConduit whose earlier start() has ended:
\* asyncio.run runs a new _main_loop, with a new semaphore and one task per
\* source node; _running_nodes is the set the earlier run left behind
AsyncRestart ==
    /\ engine = "async" /\ pc \in {"returned", "raised"}
    /\ \A n \in Nodes : launchCount[n] < MaxStarts
    /\ semValue' = concurrency_limit
    /\ task' = [n \in Nodes |->
                   IF InSeq(n, dag_sources(arcs)) THEN "waiting" ELSE "none"]
    /\ depsArg' = [n \in Nodes |-> <<>>]
    /\ pc' = "gather"
    /\ raised' = "none"
    /\ LET r == start_prologue(result_io, temp_dir, hookLog)
       IN temp_dir' = r.dir /\ hookLog' = r.log
    /\ UNCHANGED result_io
    /\ UNCHANGED <<restVars, dagVars, engine, state, storage, thread, step, excKind, readLog,
                   concurrency_limit, running_nodes, poolVars, countVars>>

\* start() is called on a ThreadPoolConduit whose earlier start() has ended:
\* a new executor is created and _submit_node_tasks runs with the
\* _submitted_nodes the earlier run left behind
PoolRestart ==
    /\ engine = "threadpool" /\ pc \in {"returned", "raised"}
    /\ \A n \in Nodes : launchCount[n] < MaxStarts
    /\ LET new == SelectSeq(dag_sources(arcs),
                         LAMBDA n : not_submitted(n, submitted_nodes))
       IN /\ submitted_nodes' = submitted_nodes \cup SeqToSet(new)
          /\ workQueue' = new
          /\ thread' = [n \in Nodes |-> IF InSeq(n, new) THEN "queued" ELSE thread[n]]
          /\ depsArg' = [n \in Nodes |-> IF InSeq(n, new) THEN <<>> ELSE depsArg[n]]
          /\ launchCount' = [n \in Nodes |->
                                IF InSeq(n, new) THEN launchCount[n] + 1 ELSE launchCount[n]]
    /\ pc' = "submit_loop"
    /\ raised' = "none"
    /\ LET r == start_prologue(result_io, temp_dir, hookLog)
       IN temp_dir' = r.dir /\ hookLog' = r.log
    /\ UNCHANGED result_io
    /\ UNCHANGED <<restVars, dagVars, engine, state, storage, step, excKind, readLog,
                   asyncVars, max_workers, setRunningCount, callbackCount, setCompleteCount,
                   callbackOutcome>>

Restart == AsyncRestart \/ PoolRestart

SpecRestart == InitStore /\ [][Run \/ Restart]_vars

\* ------------------------------------------- building with spare nodes
\* the client holds one Node more than the graphs that are run use
BuildNodes == 1..(NumNodes + 1)

NextBuild == \E s, d \in BuildNodes : AddArc(s, d)

SpecBuild == Init /\ [][NextBuild]_vars

\* -------------------------------------------------------- ParallelConduits
\* max_processors values tried by the client: a count, up to one more than
\* the machine has
ProcessorCounts == 0..(MaxCpu + 1)

InitParallel ==
    /\ arcs = <<>>
    /\ addResult = "none" /\ lastArc = NoArc /\ sortResult = NoSort
    /\ pc = "build"
    /\ result_io = "MemoryResultIO" /\ temp_dir = FALSE
    /\ IdleRun
    /\ query = NoQuery
    /\ cpus \in 1..MaxCpu
    /\ max_processors = 0 /\ processors = <<>>
    /\ parPc = "none" /\ parIdx = 0 /\ parResult = NoCall

ParFrame ==
    UNCHANGED <<storeVars, query, dagVars, engine, pc, raised, nodeVars,
                asyncVars, poolVars, countVars>>

\* ParallelConduits(name, max_processors=m)
ParConstruct(m) ==
    /\ parPc = "none" /\ parResult = NoCall
    /\ IF m > cpus
       THEN /\ parResult' = [op |-> "init", result |-> "ValueError"]
            /\ UNCHANGED <<max_processors, parPc>>
       ELSE /\ parResult' = [op |-> "init", result |-> "ok"]
            /\ max_processors' = m
            /\ parPc' = "ready"
    /\ UNCHANGED <<cpus, processors, parIdx>>
    /\ ParFrame

add_conduit_mut(procs, limit) ==
    IF Len(procs) > limit
    THEN [processors |-> procs, result |-> "ValueError"]
    ELSE [processors |-> Append(procs, "initial"), result |-> "ok"]

\* result: the registered processes after the call and how the call ended
add_conduit(procs, limit) ==
    IF Len(procs) >= limit
    THEN [processors |-> procs, result |-> "ValueError"]
    ELSE [processors |-> Append(procs, "initial"), result |-> "ok"]

AddConduit ==
    /\ parPc = "ready"
    /\ LET r == add_conduit(processors, max_processors)
       IN /\ processors' = r.processors
          /\ parResult' = [op |-> "add_conduit", result |-> r.result]
    /\ UNCHANGED <<cpus, max_processors, parPc, parIdx>>
    /\ ParFrame

\* start() is called and enters its first loop
ParStart ==
    /\ parPc = "ready"
    /\ parPc' = "starting" /\ parIdx' = 1
    /\ parResult' = [op |-> "start", result |-> "none"]
    /\ UNCHANGED <<cpus, max_processors, processors>>
    /\ ParFrame

loop_done_mut(idx, procs) == idx >= Len(procs)

\* `for proc in self._processors` has gone through the whole list
loop_done(idx, procs) == idx > Len(procs)

\* proc.start() on the next process, or the end of the first loop
ParSpawn ==
    /\ parPc = "starting"
    /\ IF loop_done(parIdx, processors)
       THEN parPc' = "joining" /\ parIdx' = 1 /\ UNCHANGED processors
       ELSE /\ processors' = [processors EXCEPT ![parIdx] = "started"]
            /\ parIdx' = parIdx + 1
            /\ UNCHANGED parPc
    /\ UNCHANGED <<cpus, max_processors, parResult>>
    /\ ParFrame

\* the conduit.start of a child process ends: exit code 0 when it returns,
\* 1 when it raises
ChildExit(i, code) ==
    /\ i \in 1..Len(processors)
    /\ processors[i] = "started"
    /\ processors' = [processors EXCEPT ![i] = code]
    /\ UNCHANGED <<cpus, max_processors, parPc, parIdx, parResult>>
    /\ ParFrame

\* Process.join returns once the process has terminated, whatever its exit code
join_returns(status) == status \in {"exit0", "exit1"}

\* proc.join() on the next process, or the end of the second loop
ParJoin ==
    /\ parPc = "joining"
    /\ IF loop_done(parIdx, processors)
       THEN /\ parPc' = "returned"
            /\ parResult' = [op |-> "start", result |-> "ok"]
            /\ UNCHANGED parIdx
       ELSE /\ join_returns(processors[parIdx])
            /\ parIdx' = parIdx + 1
            /\ UNCHANGED <<parPc, parResult>>
    /\ UNCHANGED <<cpus, max_processors, processors>>
    /\ ParFrame

ParClient ==
    \/ \E m \in ProcessorCounts : ParConstruct(m)
    \/ AddConduit
    \/ ParStart

ParRun ==
    \/ ParSpawn
    \/ \E i \in 1..MaxCpu, code \in {"exit0", "exit1"} : ChildExit(i, code)
    \/ ParJoin

NextParallel == ParClient \/ ParRun

SpecParallel == InitParallel /\ [][NextParallel]_vars

\* ------------------------------------------------------------------ claims
DagNodeSet == SeqToSet(dag_nodes(arcs))

DirectDeps(n) == SeqToSet(direct_dependencies(arcs, n))

RunningNodes == {n \in Nodes : state[n] = "Running"}

GateHolders == {n \in Nodes : task[n] = "awaiting"}

Failed(n) == excKind[n] # "none"

CallbackFailed == \E n \in Nodes : excKind[n] \in {"CallbackError", "TypeError"}

\* C1: under either engine, a node that is Running or Complete has every
\* direct dependency in state Complete.
C1_DependenciesCompleteFirst ==
    \A n \in Nodes :
        state[n] \in {"Running", "Complete"} =>
            \A d \in DirectDeps(n) : state[d] = "Complete"

C1_Witness ==
    \E n \in Nodes :
        /\ engine = "threadpool"
        /\ state[n] = "Running"
        /\ Cardinality(DirectDeps(n)) = 2

\* C2: in an AsyncConduit run no node is set Running, called back, written
\* or set Complete more than once, a node's state only moves Idle -> Running
\* -> Complete, and when start() returns each of the four has happened
\* exactly once for every node of the graph.
C2_AsyncExactlyOnce ==
    /\ [](engine = "async" =>
            /\ \A n \in Nodes :
                  /\ setRunningCount[n] <= 1 /\ callbackCount[n] <= 1
                  /\ storage[n] <= 1 /\ setCompleteCount[n] <= 1
            /\ pc = "returned" =>
                  \A n \in DagNodeSet :
                      /\ setRunningCount[n] = 1 /\ callbackCount[n] = 1
                      /\ storage[n] = 1 /\ setCompleteCount[n] = 1
                      /\ state[n] = "Complete")
    /\ [][engine = "async" =>
            \A n \in Nodes :
                state'[n] # state[n] =>
                    <<state[n], state'[n]>> \in
                        {<<"Idle", "Running">>, <<"Running", "Complete">>}]_vars

C2_Witness ==
    /\ engine = "async" /\ pc = "returned"
    /\ concurrency_limit = 1
    /\ Cardinality(DagNodeSet) = 3
    /\ \E n \in Nodes : Cardinality(DirectDeps(n)) = 2

\* C3: every read_result made by Node.start found a result under the
\* dependency's label, and that result is still the one stored: the
\* dependency was written before the read and not written again after it.
C3_ReadsFollowWrites ==
    \A r \in readLog : r[3] >= 1 /\ storage[r[2]] = r[3]

C3_Witness ==
    \E r \in readLog : engine = "threadpool" /\ thread[r[1]] = "ok" /\ max_workers = 2

\* C4 as stated: the launches holding the admission gate are at most K and,
\* equivalently, the nodes in state Running are at most K.
C4_Original ==
    engine = "async" =>
        /\ Cardinality(GateHolders) <= concurrency_limit
        /\ Cardinality(RunningNodes) <= concurrency_limit

\* C4: the launches holding the admission gate are at most K in every state
\* of an AsyncConduit run; while no Node.start has failed, every node in
\* state Running holds the gate, so the Running nodes are at most K as well.
C4_GateBoundsLaunches ==
    engine = "async" =>
        /\ Cardinality(GateHolders) <= concurrency_limit
        /\ semValue = concurrency_limit - Cardinality(GateHolders)
        /\ (\A n \in Nodes : ~Failed(n)) =>
              /\ RunningNodes \subseteq GateHolders
              /\ Cardinality(RunningNodes) <= concurrency_limit

C4_Witness ==
    \E n, m \in Nodes :
        /\ engine = "async" /\ concurrency_limit = 1
        /\ task[n] = "awaiting" /\ state[n] = "Running"
        /\ task[m] = "waiting"
        /\ DirectDeps(n) # {}

\* C5: an AsyncConduit run in which no callback fails reaches the return of
\* start(), and start() returns only with every node of the graph Complete.
C5_AsyncTerminates ==
    /\ (engine = "async") ~> (pc = "returned" \/ CallbackFailed)
    /\ [](engine = "async" /\ pc = "returned" =>
            \A n \in DagNodeSet : state[n] = "Complete")

C5_Witness ==
    /\ engine = "async" /\ pc = "returned"
    /\ Len(arcs) = 2
    /\ \E n \in Nodes : DirectDeps(n) # {} /\ Succ(arcs, {n}) # {}

\* C6: in a ThreadPoolConduit run in which a Node.start fails, start()
\* eventually ends by raising ConduitError.
C6_PoolFailureRaises ==
    (engine = "threadpool" /\ \E n \in Nodes : Failed(n))
        ~> (pc = "raised" /\ raised = "ConduitError")

\* C7: in an AsyncConduit run in which a Node.start fails, start() eventually
\* ends with an exception; the failed node is launched once only and no node
\* that depends on it, directly or transitively, is ever launched or started.
C7_AsyncFailureAborts ==
    /\ (engine = "async" /\ \E n \in Nodes : Failed(n))
           ~> (pc = "raised" /\ raised # "none")
    /\ [](engine = "async" =>
            \A n \in Nodes :
                Failed(n) =>
                    /\ launchCount[n] = 1 /\ setRunningCount[n] = 1
                    /\ \A m \in Nodes :
                          Reaches(arcs, n, m) =>
                              /\ state[m] = "Idle"
                              /\ launchCount[m] = 0 /\ setRunningCount[m] = 0)

C7_Witness ==
    \E n, m \in Nodes :
        /\ engine = "async" /\ pc = "raised"
        /\ Failed(n)
        /\ Reaches(arcs, n, m) /\ n \notin DirectDeps(m)

\* a step of the build phase is an add_arc(lastArc') call made on arcs
AddArcStep == pc = "build" /\ pc' = "build"

\* C8 as stated: an add_arc call whose arc closes a cycle, a self-loop
\* included, ends with the cycle error and leaves the arcs as they were.
C8_Original ==
    [][(AddArcStep /\ ClosesCycle(arcs, lastArc'[1], lastArc'[2])) =>
          (addResult' = "CycleError" /\ arcs' = arcs)]_vars

\* C8: an add_arc call whose arc closes a cycle fails and leaves the arcs as
\* they were; it fails with the cycle error, except for a self-loop on a node
\* that is not in a non-empty graph, which fails the membership check first.
C8_CycleRejectedUnchanged ==
    [][(AddArcStep /\ ClosesCycle(arcs, lastArc'[1], lastArc'[2])) =>
          /\ arcs' = arcs
          /\ addResult' =
                IF /\ dag_nodes(arcs) # <<>>
                   /\ lastArc'[1] = lastArc'[2]
                   /\ lastArc'[1] \notin DagNodeSet
                THEN "ValueError" ELSE "CycleError"]_vars

C8_Witness ==
    /\ pc = "build" /\ addResult = "CycleError"
    /\ lastArc[1] # lastArc[2]
    /\ InSeq(<<lastArc[2], lastArc[1]>>, arcs)

\* C9: the arcs stored after any sequence of add_arc calls contain no cycle.
C9_ArcsAcyclic == ~HasCycle(arcs)

C9_Witness ==
    /\ pc = "build" /\ addResult = "CycleError"
    /\ Len(arcs) = 2
    /\ ~InSeq(<<lastArc[2], lastArc[1]>>, arcs)
    /\ lastArc[1] # lastArc[2]

PositionIn(s, x) == CHOOSE i \in 1..Len(s) : s[i] = x

\* C10: topological_sort fails with the cycle error on an arc list that has
\* a cycle; on any other arc list it returns every node exactly once, with
\* the source of every arc before its destination.
C10_TopologicalOrder ==
    sortResult.called =>
        IF HasCycle(arcs)
        THEN sortResult.raised
        ELSE /\ ~sortResult.raised
             /\ SeqToSet(sortResult.sorted_nodes) = DagNodeSet
             /\ Len(sortResult.sorted_nodes) = Cardinality(DagNodeSet)
             /\ \A i \in 1..Len(arcs) :
                   PositionIn(sortResult.sorted_nodes, arcs[i][1])
                       < PositionIn(sortResult.sorted_nodes, arcs[i][2])

C10_Witness ==
    /\ sortResult.called /\ ~sortResult.raised
    /\ Len(arcs) = 3
    /\ Len(sortResult.sorted_nodes) = 3
    /\ \E n \in Nodes : Cardinality(DirectDeps(n)) = 2

NoDuplicates(s) == Cardinality(SeqToSet(s)) = Len(s)

HasIncoming(a, n) == \E i \in 1..Len(a) : a[i][2] = n

HasOutgoing(a, n) == \E i \in 1..Len(a) : a[i][1] = n

HasIncomingFromOther(a, n) == \E i \in 1..Len(a) : a[i][2] = n /\ a[i][1] # n

HasOutgoingToOther(a, n) == \E i \in 1..Len(a) : a[i][1] = n /\ a[i][2] # n

\* C11 as stated: sources lists, once each, exactly the nodes with no incoming
\* arc, and sinks exactly the nodes with no outgoing arc; the example arcs
\* give sources {1, 2} and sinks {4, 6}.
C11_Original ==
    /\ query.op = "sources" =>
          /\ NoDuplicates(query.result)
          /\ SeqToSet(query.result) = {n \in DagNodeSet : ~HasIncoming(arcs, n)}
          /\ arcs = SampleArcs => SeqToSet(query.result) = {1, 2}
    /\ query.op = "sinks" =>
          /\ NoDuplicates(query.result)
          /\ SeqToSet(query.result) = {n \in DagNodeSet : ~HasOutgoing(arcs, n)}
          /\ arcs = SampleArcs => SeqToSet(query.result) = {4, 6}

\* C11 amended: sources lists, once each, exactly the nodes with no incoming
\* arc from another node, and sinks exactly the nodes with no outgoing arc to
\* another node (an arc from a node to itself is ignored by both); the example
\* arcs give sources {1, 2} and sinks {4, 6}.
C11_SourcesAndSinks ==
    /\ query.op = "sources" =>
          /\ NoDuplicates(query.result)
          /\ SeqToSet(query.result) =
                {n \in DagNodeSet : ~HasIncomingFromOther(arcs, n)}
          /\ arcs = SampleArcs => SeqToSet(query.result) = {1, 2}
    /\ query.op = "sinks" =>
          /\ NoDuplicates(query.result)
          /\ SeqToSet(query.result) =
                {n \in DagNodeSet : ~HasOutgoingToOther(arcs, n)}
          /\ arcs = SampleArcs => SeqToSet(query.result) = {4, 6}

C11_Witness ==
    /\ query.op = "sinks"
    /\ arcs = SampleArcs
    /\ query.result = <<4, 6>>

\* C12: direct_dependencies(node) and all_dependencies(node) raise the
\* not-in-graph error whenever node is not a node of the graph.
C12_AbsentNodeQueryFails ==
    (query.op \in {"direct_dependencies", "all_dependencies"}
         /\ query.node \notin DagNodeSet)
        => query.raised = "ValueError"

\* C13: neighbors(node) returns exactly the destinations of the arcs leaving
\* node when node is in the graph; neighbors(node) and level(node, path) raise
\* the not-in-graph error when it is not, whatever the path.
C13_NeighborsAndLevel ==
    /\ query.op = "neighbors" =>
          IF query.node \in DagNodeSet
          THEN /\ query.raised = "none"
               /\ SeqToSet(query.result) =
                     {arcs[i][2] : i \in {j \in 1..Len(arcs) : arcs[j][1] = query.node}}
          ELSE query.raised = "ValueError"
    /\ (query.op = "level" /\ query.node \notin DagNodeSet) =>
          query.raised = "ValueError"

C13_Witness ==
    /\ query.op = "level"
    /\ arcs # <<>>
    /\ query.node \notin DagNodeSet
    /\ InSeq(query.node, query.path)
    /\ query.raised = "ValueError"

\* C14: when the bound store offers scratch-area create and delete
\* operations, start() has called create before any node executes and has
\* called delete last when it has returned or raised.
C14_ScratchHooksAroundRun ==
    (engine # "none" /\ ExposesScratchHooks(result_io)) =>
        /\ (\E n \in Nodes : setRunningCount[n] > 0) => InSeq("create", hookLog)
        /\ pc \in {"returned", "raised"} =>
              (hookLog # <<>> /\ hookLog[Len(hookLog)] = "delete")

\* C15: in a ThreadPoolConduit run no node is submitted to the pool more than
\* once, also while a submitted node is still Idle in the pool's queue; no
\* node is started or called back more than once, and when start() returns
\* every node of the graph was submitted, called back and written exactly once.
C15_PoolSubmitsOnce ==
    engine = "threadpool" =>
        /\ \A n \in Nodes :
              /\ launchCount[n] <= 1 /\ setRunningCount[n] <= 1
              /\ callbackCount[n] <= 1 /\ storage[n] <= 1
        /\ pc = "returned" =>
              \A n \in DagNodeSet :
                  launchCount[n] = 1 /\ callbackCount[n] = 1 /\ storage[n] = 1

\* a submitted node waits Idle in the queue of a pool whose only worker is
\* busy, while the scan goes on
C15_Witness ==
    /\ engine = "threadpool" /\ pc = "submit_loop"
    /\ max_workers = 1
    /\ \E n, m \in Nodes :
          /\ n # m
          /\ thread[n] = "running"
          /\ thread[m] = "queued" /\ state[m] = "Idle" /\ m \in submitted_nodes
          /\ launchCount[m] = 1

\* C16: a ThreadPoolConduit run in which no callback fails reaches the return
\* of start(), for every pool size, and start() returns only with every node
\* of the graph Complete.
C16_PoolTerminates ==
    /\ (engine = "threadpool") ~> (pc = "returned" \/ CallbackFailed)
    /\ [](engine = "threadpool" /\ pc = "returned" =>
            \A n \in DagNodeSet : state[n] = "Complete")

\* a pool of one worker has finished a graph with two sources
C16_Witness ==
    /\ engine = "threadpool" /\ pc = "returned"
    /\ max_workers = 1
    /\ Len(dag_sources(arcs)) >= 2
    /\ Cardinality(DagNodeSet) = 3

\* C17: a run over a graph without arcs, under either engine, reaches the
\* return of start(), and no callback is invoked and no result written in it.
C17_EmptyGraphReturns ==
    /\ (engine # "none" /\ arcs = <<>>) ~> (pc = "returned")
    /\ []((engine # "none" /\ arcs = <<>>) =>
            /\ pc # "raised"
            /\ \A n \in Nodes :
                  /\ callbackCount[n] = 0 /\ storage[n] = 0
                  /\ launchCount[n] = 0 /\ state[n] = "Idle")

C17_Witness ==
    /\ engine = "threadpool" /\ pc = "returned"
    /\ arcs = <<>>
    /\ submitted_nodes = {}

Terminated == {"exit0", "exit1"}

\* C18: a ParallelConduits exists only with max_processors at most the cpu
\* count, it never holds more registered conduits than max_processors, and an
\* add_conduit call made with max_processors conduits registered raises
\* ValueError and leaves the registered conduits as they were.
C18_ProcessorLimit ==
    /\ [](parPc # "none" =>
            /\ max_processors <= cpus
            /\ Len(processors) <= max_processors)
    /\ [][(parPc = "ready" /\ parResult'.op = "add_conduit"
              /\ Len(processors) >= max_processors)
             => (parResult'.result = "ValueError" /\ processors' = processors)]_vars

C18_Witness ==
    /\ parPc = "ready"
    /\ parResult = [op |-> "add_conduit", result |-> "ValueError"]
    /\ max_processors = 2
    /\ Len(processors) = 2

\* C19: ParallelConduits.start has started every registered child before it
\* joins the first one and returns only when every child has terminated; the
\* end of a child run, failed or not, changes neither a sibling nor the
\* parent's position.
C19_FanOutFanIn ==
    /\ [](parPc \in {"joining", "returned"} =>
            \A i \in 1..Len(processors) : processors[i] # "initial")
    /\ [](parPc = "returned" =>
            \A i \in 1..Len(processors) : processors[i] \in Terminated)
    /\ [][\A i \in 1..Len(processors) :
             (processors[i] = "started" /\ processors'[i] \in Terminated) =>
                 /\ parPc' = parPc /\ parIdx' = parIdx
                 /\ Len(processors') = Len(processors)
                 /\ \A j \in 1..Len(processors) :
                       j # i => processors'[j] = processors[j]]_vars

\* start() has returned after a run in which the first child failed and its
\* sibling ran to completion
C19_Witness ==
    /\ parPc = "returned"
    /\ processors = <<"exit1", "exit0">>

\* C20: an add_arc call on a graph that has nodes, with neither endpoint among
\* them, raises the membership error and leaves the arcs as they were; an
\* add_arc call on a graph without arcs with two distinct nodes is accepted
\* and stores the arc.
C20_MembershipRequirement ==
    [][AddArcStep =>
          /\ (/\ dag_nodes(arcs) # <<>>
              /\ lastArc'[1] \notin DagNodeSet
              /\ lastArc'[2] \notin DagNodeSet)
                => (addResult' = "ValueError" /\ arcs' = arcs)
          /\ (arcs = <<>> /\ lastArc'[1] # lastArc'[2])
                => (addResult' = "ok" /\ arcs' = <<lastArc'>>)]_vars

\* two distinct nodes, both outside a graph of two arcs, were refused
C20_Witness ==
    /\ pc = "build" /\ addResult = "ValueError"
    /\ Len(arcs) = 2
    /\ lastArc[1] # lastArc[2]
    /\ lastArc[1] \notin DagNodeSet /\ lastArc[2] \notin DagNodeSet

\* C21: in every state of a run, a node in state Complete has a result
\* stored under its label: Node.start wrote it before the node became Complete.
C21_CompleteHasResult ==
    \A n \in Nodes : state[n] = "Complete" => storage[n] >= 1

\* a dependency is Complete and written while its dependant has not run yet
C21_Witness ==
    /\ engine # "none" /\ pc \notin {"returned", "raised"}
    /\ \E n, m \in Nodes :
          /\ <<n, m>> \in SeqToSet(arcs)
          /\ state[n] = "Complete" /\ storage[n] = 1
          /\ state[m] = "Idle" /\ storage[m] = 0

\* C22: when the callback of a node returned a value that is not of the
\* node's result kind, Node.start has ended with TypeError, nothing is
\* written under the node's label and the node is not Complete.
C22_MismatchFails ==
    \A n \in Nodes :
        callbackOutcome[n] = "mismatch" =>
            /\ thread[n] = "exc" /\ excKind[n] = "TypeError"
            /\ storage[n] = 0
            /\ state[n] # "Complete"

\* the mismatch happened in a node whose dependency had completed
C22_Witness ==
    \E n \in Nodes :
        /\ callbackOutcome[n] = "mismatch"
        /\ state[n] = "Running"
        /\ DirectDeps(n) # {}
        /\ pc = "raised" /\ raised = "TypeError"

\* the endpoints in the order the arcs name them: source, then destination,
\* of each arc
Endpoints(a) ==
    [i \in 1..(2 * Len(a)) |-> a[(i + 1) \div 2][IF i % 2 = 1 THEN 1 ELSE 2]]

FirstSeen(a, u) == CHOOSE i \in 1..(2 * Len(a)) :
                       Endpoints(a)[i] = u /\ \A j \in 1..(i - 1) : Endpoints(a)[j] # u

\* C24: nodes lists every arc endpoint exactly once, and u comes before v in
\* it whenever u is first named before v when the arcs are read in insertion
\* order, source then destination of each arc.
C24_NodesInsertionOrder ==
    query.op = "nodes" =>
        /\ NoDuplicates(query.result)
        /\ SeqToSet(query.result) = SeqToSet(Endpoints(arcs))
        /\ \A u, v \in SeqToSet(query.result) :
              FirstSeen(arcs, u) < FirstSeen(arcs, v) =>
                  PositionIn(query.result, u) < PositionIn(query.result, v)

\* every node from which n is reachable along one or more arcs
StrictAncestors(a, n) == {m \in SeqToSet(dag_nodes(a)) : Reaches(a, m, n)}

\* C25: on an acyclic graph, as add_arc builds it, all_dependencies(n) for a
\* node n of the graph returns, as a set, exactly the nodes from which n is
\* reachable along one or more arcs; n itself is not among them.
C25_AllDependenciesAreAncestors ==
    (query.op = "all_dependencies" /\ ~HasCycle(arcs) /\ query.node \in DagNodeSet) =>
        /\ query.raised = "none"
        /\ SeqToSet(query.result) = StrictAncestors(arcs, query.node)
        /\ query.node \notin SeqToSet(query.result)

\* a node with an ancestor that is not a direct dependency, and with a node
\* of the graph that cannot reach it
C25_Witness ==
    /\ query.op = "all_dependencies" /\ query.raised = "none"
    /\ ~HasCycle(arcs)
    /\ \E m \in SeqToSet(query.result) : m \notin DirectDeps(query.node)
    /\ \E m \in DagNodeSet \ {query.node} : m \notin SeqToSet(query.result)

\* the nodes joined to a node of S by an arc, in either direction
Adjacent(a, S) ==
    {a[i][2] : i \in {j \in 1..Len(a) : a[j][1] \in S}}
        \cup {a[i][1] : i \in {j \in 1..Len(a) : a[j][2] \in S}}

RECURSIVE Component(_, _, _)
Component(a, S, k) ==
    IF k = 0 THEN S ELSE Component(a, S \cup Adjacent(a, S), k - 1)

WeaklyConnected(a) ==
    \A u \in SeqToSet(dag_nodes(a)) :
        Component(a, {u}, Len(a)) = SeqToSet(dag_nodes(a))

\* C26: after any sequence of add_arc calls on an empty Dag the graph is
\* weakly connected: ignoring the direction of the arcs, every node is
\* reachable from every other node.
C26_WeaklyConnected == WeaklyConnected(arcs)

\* a graph of four nodes built with three accepted arcs
C26_Witness ==
    /\ pc = "build" /\ addResult = "ok"
    /\ Len(arcs) = 3
    /\ Cardinality(DagNodeSet) = 4

\* C23: once a node is Complete, no later step of an engine, a second start()
\* on the same conduit included, changes its state or invokes its callback.
C23_CompleteIsTerminal ==
    [][\A n \in Nodes :
          state[n] = "Complete" =>
              (state'[n] = "Complete" /\ callbackCount'[n] = callbackCount[n])]_vars


====
